---- MODULE Spec2Model ----
(***************************************************************************)
(* Model of src/structs/singlyLinkedList.ts: class Node and class          *)
(* SinglyLinkedList.  Nodes live in a heap indexed by the order of their   *)
(* construction (node n is the n-th `new Node`), so that node identity     *)
(* (===) is equality of indices.  Every method is an operator from a list  *)
(* record to a record [list, ret]; every action applies one method to the  *)
(* current list and records which method it was and what it returned.      *)
(***************************************************************************)
EXTENDS Integers, Sequences, FiniteSets, TLC

\* ---- bounds of the model ----
MaxNodes == 3        \* nodes constructed in one run
MaxUnder == 1        \* how far below zero #length is followed

\* payloads: two values that can be told apart
Values == {1, 2}
Indices == (0 - MaxUnder - 1)..(MaxNodes + 1)

\* null: no node
Null == 0

VARIABLES
  head,      \* #head: Node | null
  tail,      \* #tail: Node | null
  length,    \* #length: number
  next,      \* Node.next of every constructed node
  data,      \* Node.data of every constructed node
  op,        \* the method called last
  ret,       \* what the last call returned
  pushed     \* [only, vals]: the values pushed since construction, in order, as long
             \* as push and toArray are the only methods that were called

vars == <<head, tail, length, next, data, op, ret, pushed>>

\* the list object and its nodes, as one record
Cur == [head |-> head, tail |-> tail, length |-> length, next |-> next, data |-> data]

\* ---- return values ----
RetVoid == [kind |-> "void", node |-> Null, bool |-> FALSE, array |-> <<>>]
RetNode(n) == [kind |-> "node", node |-> n, bool |-> FALSE, array |-> <<>>]
RetBool(b) == [kind |-> "bool", node |-> Null, bool |-> b, array |-> <<>>]
RetArray(a) == [kind |-> "array", node |-> Null, bool |-> FALSE, array |-> a]
\* the call never returns (its loop does not end)
NoReturn == [kind |-> "none", node |-> Null, bool |-> FALSE, array |-> <<>>]

Result(L, r) == [list |-> L, ret |-> r]

\* ---- class Node ----
\* new Node(data): the next free index, with data set and next = null
Node(L, d) == [L EXCEPT !.next = Append(@, Null), !.data = Append(@, d)]

\* ---- class SinglyLinkedList ----
\* constructor
constructor == [head |-> Null, tail |-> Null, length |-> 0, next |-> <<>>, data |-> <<>>]

\* push that forgets to link the old tail to the new node
push_unlinked(L, d) ==
  LET node == Len(L.next) + 1
      L1 == Node(L, d)
      L2 == IF L1.head = Null THEN [L1 EXCEPT !.head = node] ELSE L1
  IN Result([L2 EXCEPT !.tail = node, !.length = @ + 1], RetVoid)

push(L, d) ==
  LET node == Len(L.next) + 1
      L1 == Node(L, d)
      L2 == IF L1.head = Null THEN [L1 EXCEPT !.head = node] ELSE L1
      L3 == IF L2.tail # Null THEN [L2 EXCEPT !.next[L2.tail] = node] ELSE L2
  IN Result([L3 EXCEPT !.tail = node, !.length = @ + 1], RetVoid)

\* pop's loop "Find the new tail", started at n
RECURSIVE popNewTail(_, _)
popNewTail(L, n) ==
  IF L.next[n] # L.tail /\ L.next[n] # Null THEN popNewTail(L, L.next[n]) ELSE n

pop(L) ==
  IF L.head = Null \/ L.tail = Null THEN Result(L, RetNode(Null))
  ELSE LET oldTail == L.tail IN
    IF L.head = L.tail /\ L.length = 1
    THEN Result([L EXCEPT !.head = Null, !.tail = Null, !.length = 0], RetNode(oldTail))
    ELSE LET newTail == popNewTail(L, L.head) IN
      Result([L EXCEPT !.next[newTail] = Null, !.length = @ - 1], RetNode(oldTail))

\* get's loop: <<counter, current>> when it ends
RECURSIVE getLoop(_, _, _, _)
getLoop(L, index, counter, current) ==
  IF counter # index /\ current # Null
  THEN getLoop(L, index, counter + 1, L.next[current])
  ELSE <<counter, current>>

\* get(index): the node, or Null
get(L, index) ==
  IF index < 0 \/ index >= L.length THEN Null
  ELSE LET end == getLoop(L, index, 0, L.head) IN
    IF end[1] # index THEN Null ELSE end[2]

set(L, index, d) ==
  LET node == get(L, index) IN
  IF node = Null THEN Result(L, RetBool(FALSE))
  ELSE Result([L EXCEPT !.data[node] = d], RetBool(TRUE))

\* insert that counts the new node before it has checked the index
insert_countsFirst(L, index, d) ==
  LET M == [L EXCEPT !.length = @ + 1] IN
  IF index < 0 \/ index > L.length THEN Result(M, RetBool(FALSE))
  ELSE IF index = L.length THEN Result(push(L, d).list, RetBool(TRUE))
  ELSE LET newNode == Len(L.next) + 1
           L1 == Node(M, d)
       IN
    IF index = 0
    THEN Result([L1 EXCEPT !.next[newNode] = L1.head, !.head = newNode], RetBool(TRUE))
    ELSE LET prevNode == get(L, index - 1) IN
      IF prevNode = Null THEN Result(M, RetBool(FALSE))
      ELSE Result([L1 EXCEPT !.next[newNode] = L1.next[prevNode],
                             !.next[prevNode] = newNode], RetBool(TRUE))

insert(L, index, d) ==
  IF index < 0 \/ index > L.length THEN Result(L, RetBool(FALSE))
  ELSE IF index = L.length THEN Result(push(L, d).list, RetBool(TRUE))
  ELSE LET newNode == Len(L.next) + 1
           L1 == Node(L, d)
       IN
    IF index = 0
    THEN Result([L1 EXCEPT !.next[newNode] = L1.head, !.head = newNode, !.length = @ + 1],
                RetBool(TRUE))
    ELSE LET prevNode == get(L1, index - 1) IN
      \* on failure newNode is dropped: nothing refers to it
      IF prevNode = Null THEN Result(L, RetBool(FALSE))
      ELSE Result([L1 EXCEPT !.next[newNode] = L1.next[prevNode],
                             !.next[prevNode] = newNode,
                             !.length = @ + 1], RetBool(TRUE))

remove(L, index) ==
  IF index < 0 \/ index >= L.length THEN Result(L, RetNode(Null))
  ELSE IF index = 0 /\ L.head # Null
  THEN LET oldHead == L.head IN
    Result([L EXCEPT !.head = L.next[L.head], !.length = @ - 1], RetNode(oldHead))
  ELSE LET prevNode == get(L, index - 1) IN
    IF prevNode = Null THEN Result(L, RetNode(Null))
    ELSE LET node == L.next[prevNode] IN
      \* prevNode.next = node ?? null: prevNode.next gets the value it has
      Result([L EXCEPT !.next[prevNode] = node, !.length = @ - 1], RetNode(node))

removeHead(L) ==
  IF L.head = Null THEN Result(L, RetNode(Null))
  ELSE LET oldHead == L.head
           L1 == IF L.next[L.head] # Null THEN [L EXCEPT !.head = L.next[L.head]] ELSE L
       IN Result([L1 EXCEPT !.length = @ - 1], RetNode(oldHead))

\* removeTail's loop started at newTail: the node whose next is oldTail, or Null
\* when the loop never ends (newTail has become null, and null?.next is never oldTail)
RECURSIVE removeTailLoop(_, _, _)
removeTailLoop(L, oldTail, newTail) ==
  IF newTail = Null THEN Null
  ELSE IF L.next[newTail] # oldTail THEN removeTailLoop(L, oldTail, L.next[newTail])
  ELSE newTail

removeTail(L) ==
  IF L.tail = Null \/ L.head = Null THEN Result(L, RetNode(Null))
  ELSE LET oldTail == L.tail
           newTail == removeTailLoop(L, oldTail, L.head)
       IN
    IF newTail = Null THEN Result(L, NoReturn)
    ELSE Result([L EXCEPT !.length = @ - 1, !.tail = newTail, !.next[newTail] = Null],
                RetNode(oldTail))

\* toArray's loop from currentNode
RECURSIVE toArrayLoop(_, _)
toArrayLoop(L, currentNode) ==
  IF currentNode # Null
  THEN <<L.data[currentNode]>> \o toArrayLoop(L, L.next[currentNode])
  ELSE <<>>

toArray(L) == toArrayLoop(L, L.head)

\* ---- the state machine: one action per method ----
\* the method `name` is called on the current list with payload d (0 when the
\* method takes none), with outcome r
Do(name, d, r) ==
  /\ ret.kind # "none"
  /\ Len(r.list.next) <= MaxNodes
  /\ r.list.length >= 0 - MaxUnder
  /\ head' = r.list.head
  /\ tail' = r.list.tail
  /\ length' = r.list.length
  /\ next' = r.list.next
  /\ data' = r.list.data
  /\ op' = name
  /\ ret' = r.ret
  /\ pushed' = IF pushed.only /\ name = "push"
               THEN [only |-> TRUE, vals |-> Append(pushed.vals, d)]
               ELSE IF pushed.only /\ name = "toArray" THEN pushed
               ELSE [only |-> FALSE, vals |-> <<>>]

Init ==
  /\ head = constructor.head
  /\ tail = constructor.tail
  /\ length = constructor.length
  /\ next = constructor.next
  /\ data = constructor.data
  /\ op = "constructor"
  /\ ret = RetVoid
  /\ pushed = [only |-> TRUE, vals |-> <<>>]

Push == \E d \in Values : Do("push", d, push(Cur, d))
Pop == Do("pop", 0, pop(Cur))
Get == \E i \in Indices : Do("get", 0, Result(Cur, RetNode(get(Cur, i))))
Set == \E i \in Indices, d \in Values : Do("set", d, set(Cur, i, d))
Insert == \E i \in Indices, d \in Values : Do("insert", d, insert(Cur, i, d))
Remove == \E i \in Indices : Do("remove", 0, remove(Cur, i))
RemoveHead == Do("removeHead", 0, removeHead(Cur))
RemoveTail == Do("removeTail", 0, removeTail(Cur))
ToArray == Do("toArray", 0, Result(Cur, RetArray(toArray(Cur))))

Next ==
  \/ Push
  \/ Pop
  \/ Get
  \/ Set
  \/ Insert
  \/ Remove
  \/ RemoveHead
  \/ RemoveTail
  \/ ToArray

Spec == Init /\ [][Next]_vars

\* ---- what the claims speak of ----
\* the nodes met by following next from head(), in order
RECURSIVE chainFrom(_, _)
chainFrom(L, n) == IF n = Null THEN <<>> ELSE <<n>> \o chainFrom(L, L.next[n])
Chain(L) == chainFrom(L, L.head)

\* a sequence without its last element, without its element at 0-based position i,
\* and with x put at 0-based position i
Front(a) == SubSeq(a, 1, Len(a) - 1)
DelAt(a, i) == SubSeq(a, 1, i) \o SubSeq(a, i + 2, Len(a))
InsAt(a, i, x) == SubSeq(a, 1, i) \o <<x>> \o SubSeq(a, i + 1, Len(a))

\* C1: in every reachable state length() equals the number of nodes met by following
\* next from head() until absent.
C1_LengthInvariant == length = Len(Chain(Cur))

\* C2: after pushing v1..vn (n >= 0) on a newly constructed list and nothing else,
\* toArray() yields exactly <<v1, ..., vn>> and length() = n.
C2_PushToArray ==
  pushed.only =>
    /\ toArray(Cur) = pushed.vals
    /\ length = Len(pushed.vals)
    /\ (op = "toArray" => ret = RetArray(pushed.vals))

\* C2 witness: three values, not all the same, were pushed and toArray was then called
C2_Witness ==
  /\ pushed.only
  /\ pushed.vals = <<1, 2, 1>>
  /\ op = "toArray"
  /\ ret.array = <<1, 2, 1>>

\* C3: in every reachable state where the list is non-empty, pop() returns the node
\* that is last in the chain from head (its data is the last element of toArray()
\* before the call) and leaves toArray() equal to the previous sequence minus its
\* last element; also for a pop that directly follows another pop.
C3_PopInverse ==
  (length > 0 /\ head # Null /\ tail # Null) =>
    LET arr == toArray(Cur)
        ch == Chain(Cur)
        r == pop(Cur)
    IN /\ r.ret = RetNode(ch[Len(ch)])
       /\ r.list.data[r.ret.node] = arr[Len(arr)]
       /\ toArray(r.list) = Front(arr)

\* C4: remove(index) with 0 <= index < length() returns the node get(index) returned
\* before the call, and leaves toArray() equal to the previous sequence with the
\* element at position index deleted, and length() one less.
C4_RemoveAt ==
  \A i \in Indices :
    (0 <= i /\ i < length) =>
      LET arr == toArray(Cur)
          r == remove(Cur, i)
      IN /\ r.ret = RetNode(get(Cur, i))
         /\ r.ret.node # Null
         /\ toArray(r.list) = DelAt(arr, i)
         /\ r.list.length = length - 1

\* C5: in every reachable state get(i) is absent for all i < 0 and all i >= length(),
\* and for 0 <= i < length() it is a node whose data equals toArray()[i].
C5_GetBounds ==
  \A i \in Indices :
    LET arr == toArray(Cur)
        n == get(Cur, i)
    IN /\ (i < 0 \/ i >= length) => n = Null
       /\ (0 <= i /\ i < length) => (n # Null /\ i < Len(arr) /\ data[n] = arr[i + 1])

\* C6: insert(index, x) with 0 <= index <= length() returns true and leaves toArray()
\* equal to the previous sequence with x put at position index, and length() one
\* more; in every reachable state, index = length() included.
C6_InsertAt ==
  \A i \in Indices, x \in Values :
    (0 <= i /\ i <= length) =>
      LET arr == toArray(Cur)
          r == insert(Cur, i, x)
      IN /\ r.ret = RetBool(TRUE)
         /\ i <= Len(arr)
         /\ toArray(r.list) = InsAt(arr, i, x)
         /\ r.list.length = length + 1

\* C7: in every reachable state, insert(0, x) followed immediately by remove(0)
\* returns the node carrying x and restores toArray() and length().
C7_InsertRemoveRoundTrip ==
  \A x \in Values :
    LET a == insert(Cur, 0, x)
        b == remove(a.list, 0)
    IN /\ a.ret = RetBool(TRUE)
       /\ b.ret.kind = "node"
       /\ b.ret.node = Len(next) + 1
       /\ b.list.data[b.ret.node] = x
       /\ toArray(b.list) = toArray(Cur)
       /\ b.list.length = length

\* C8: from any reachable state insert(length(), x) returns true and leaves the list
\* in the state push(x) leaves it in.
C8_InsertAtLengthIsPush ==
  \A x \in Values :
    LET a == insert(Cur, length, x)
        p == push(Cur, x)
    IN /\ a.ret = RetBool(TRUE)
       /\ a.list = p.list

\* C9: after any sequence of operations push(x) appends: toArray() afterwards is
\* toArray() before with x added last, length() is one more, and tail() is the new
\* node, whose next is absent.
C9_PushAppends ==
  \A x \in Values :
    LET arr == toArray(Cur)
        r == push(Cur, x)
    IN /\ toArray(r.list) = Append(arr, x)
       /\ r.list.length = length + 1
       /\ r.list.tail = Len(next) + 1
       /\ r.list.next[r.list.tail] = Null

\* a call's outcome r leaves length(), head() and tail() as they are
Untouched(r) == r.list.length = length /\ r.list.head = head /\ r.list.tail = tail

\* C10: on a list with length() = 0, newly constructed or emptied by earlier calls,
\* pop(), get(0), remove(0), removeHead() and removeTail() return absent, set(0, x)
\* and insert(1, x) return false, and none of them changes length(), head() or tail().
C10_EmptyListCalls ==
  length = 0 =>
    /\ pop(Cur).ret = RetNode(Null) /\ Untouched(pop(Cur))
    /\ get(Cur, 0) = Null
    /\ remove(Cur, 0).ret = RetNode(Null) /\ Untouched(remove(Cur, 0))
    /\ removeHead(Cur).ret = RetNode(Null) /\ Untouched(removeHead(Cur))
    /\ removeTail(Cur).ret = RetNode(Null) /\ Untouched(removeTail(Cur))
    /\ \A x \in Values :
         /\ set(Cur, 0, x).ret = RetBool(FALSE) /\ Untouched(set(Cur, 0, x))
         /\ insert(Cur, 1, x).ret = RetBool(FALSE) /\ Untouched(insert(Cur, 1, x))

\* the outcome r of a call leaves the list as it is: head(), tail(), length(), and
\* the next link and the data of every node there was before the call
Unchanged(r) ==
  /\ r.list.head = head
  /\ r.list.tail = tail
  /\ r.list.length = length
  /\ \A n \in 1..Len(next) : r.list.next[n] = next[n] /\ r.list.data[n] = data[n]

\* C11: whenever set(index, data) or insert(index, data) returns false, the list is
\* unchanged: head(), tail(), length(), every node's next link and every node's data.
C11_NoPartialMutation ==
  \A i \in Indices, x \in Values :
    /\ set(Cur, i, x).ret = RetBool(FALSE) => Unchanged(set(Cur, i, x))
    /\ insert(Cur, i, x).ret = RetBool(FALSE) => Unchanged(insert(Cur, i, x))

\* C11 witness: set has returned false on a list that holds nodes, where the lookup
\* of an index below length() fails
C11_Witness ==
  /\ op = "set"
  /\ ret = RetBool(FALSE)
  /\ head # Null
  /\ \E i \in 0..(length - 1) : get(Cur, i) = Null

\* the list holds exactly one node: one node is chained from head(), and head(),
\* tail() and length() say so
OneNode(L) ==
  /\ L.length = 1
  /\ L.head # Null
  /\ L.tail = L.head
  /\ L.next[L.head] = Null

\* the list is empty: length() = 0, head() and tail() absent
Empty(L) == L.length = 0 /\ L.head = Null /\ L.tail = Null

\* C12: removeTail() on a list holding exactly one node returns that node and leaves
\* the list empty: length() = 0, head() absent and tail() absent.
C12_RemoveTailOneNode ==
  OneNode(Cur) =>
    LET r == removeTail(Cur)
    IN r.ret = RetNode(head) /\ Empty(r.list)

\* C13: removeHead() on a list holding exactly one node returns that node and leaves
\* the list empty: length() = 0, head() and tail() both absent.
C13_RemoveHeadOneNode ==
  OneNode(Cur) =>
    LET r == removeHead(Cur)
    IN r.ret = RetNode(head) /\ Empty(r.list)

\* C14: in every reachable state every call of push, pop, get, set, insert, remove,
\* removeHead, removeTail and toArray terminates and returns a value.
C14_Total ==
  /\ ret # NoReturn
  /\ pop(Cur).ret # NoReturn
  /\ removeHead(Cur).ret # NoReturn
  /\ removeTail(Cur).ret # NoReturn
  /\ toArray(Cur) \in Seq(Values)
  /\ \A i \in Indices :
       /\ get(Cur, i) \in 0..Len(next)
       /\ remove(Cur, i).ret # NoReturn
       /\ \A x \in Values :
            /\ set(Cur, i, x).ret # NoReturn
            /\ insert(Cur, i, x).ret # NoReturn
  /\ \A x \in Values : push(Cur, x).ret # NoReturn

\* C15: in every reachable state length() = 0 iff head() is absent iff tail() is
\* absent.
C15_EmptinessAgrees ==
  /\ (length = 0) = (head = Null)
  /\ (head = Null) = (tail = Null)

\* C16: in every reachable state with a non-empty list, following next from head()
\* exactly length() - 1 times reaches the node tail() refers to, whose next is
\* absent; tail() never refers to a node that is not in the chain.
C16_TailIsLast ==
  length > 0 =>
    LET ch == Chain(Cur)
    IN /\ Len(ch) >= length
       /\ ch[length] = tail
       /\ next[tail] = Null

\* C17: removeTail() on a list with length() >= 2, in every reachable state, returns
\* the node tail() referred to, makes that node's former predecessor the new tail()
\* with next absent, decrements length() and leaves toArray() equal to the previous
\* sequence minus its last element.
C17_RemoveTail ==
  length >= 2 =>
    LET arr == toArray(Cur)
        r == removeTail(Cur)
    IN /\ r.ret = RetNode(tail)
       /\ tail # Null
       /\ r.list.tail # Null
       /\ next[r.list.tail] = tail
       /\ r.list.next[r.list.tail] = Null
       /\ r.list.length = length - 1
       /\ toArray(r.list) = Front(arr)

\* the elements of a sequence
Range(a) == {a[k] : k \in 1..Len(a)}

\* C18: a node returned by pop, remove, removeHead or removeTail is, immediately after
\* the call, not reachable by following next from head(), and is not the node head()
\* or tail() refers to.
C18_ReturnedNodeUnlinked ==
  (op \in {"pop", "remove", "removeHead", "removeTail"} /\ ret.kind = "node" /\ ret.node # Null) =>
    /\ ret.node \notin Range(Chain(Cur))
    /\ ret.node # head
    /\ ret.node # tail

\* C19: set(index, data) with 0 <= index < length() returns true and changes only the
\* data of the node at position index: toArray() afterwards is the previous sequence
\* with position index replaced by data, and length(), head(), tail() and every next
\* link are unchanged.
C19_SetFrame ==
  \A i \in Indices, x \in Values :
    (0 <= i /\ i < length) =>
      LET arr == toArray(Cur)
          r == set(Cur, i, x)
      IN /\ r.ret = RetBool(TRUE)
         /\ i < Len(arr)
         /\ toArray(r.list) = [arr EXCEPT ![i + 1] = x]
         /\ Untouched(r)
         /\ r.list.next = next

\* C20: length() is never negative, in every state reachable by any sequence of
\* operations.
C20_LengthNonNegative == length >= 0

====
